---- MODULE Spec2Model ----
(***************************************************************************)
(* A model of package apperror (go-structured-errors): the AppError value, *)
(* its builders (error.go), its gRPC transcoding (grpc.go) and its JSON    *)
(* serialisation for logs (gateway.go, context-key variant).               *)
(*                                                                         *)
(* Go pointers are addresses into `heap`, Go maps are identifiers into     *)
(* `maps`, so that aliasing and in-place writes are visible.               *)
(***************************************************************************)
EXTENDS Integers, Sequences, FiniteSets, TLC

VARIABLES heap,    \* Seq of AppError structs; a *AppError is an index, 0 is nil
          maps,    \* Seq of ErrorFields contents; an ErrorFields value is an index, 0 is the nil map
          last,    \* the last call and what it returned
          cap,     \* how many structs and maps a run may allocate: <<structs, maps>>
          pc,      \* concurrent callers: position of each goroutine
          gcall,   \* concurrent callers: the call each goroutine makes
          gres,    \* concurrent callers: what each call returned
          wrote    \* concurrent callers: goroutines that stored into the shared template

vars == <<heap, maps, last, cap, pc, gcall, gres, wrote>>

----------------------------------------------------------------------------
(* Bounds of the model *)

MaxObjs == 3        \* structs allocated in one run
MaxObjsIO == 2      \* structs allocated in a run that transcodes or serialises
MaxMaps == 2        \* maps allocated in one run
MaxDetails == 2     \* details on a status received from elsewhere
NumGoroutines == 2  \* concurrent callers of the shared template

----------------------------------------------------------------------------
(* Values *)

NilPtr == 0          \* (*AppError)(nil)
NilMap == 0          \* ErrorFields(nil)
NilErr == 0          \* error(nil)
StdErr == -1         \* errors.New("connection refused"), a non-AppError error
TypedNil == -2       \* a nil *AppError held in a non-nil error interface

OK == 0              \* codes.OK
Unknown == 2         \* codes.Unknown
NotFound == 5        \* codes.NotFound
Internal == 13       \* codes.Internal

BadStr == "<invalid-utf8>"   \* stands for a string that is not valid UTF-8

\* the pairs callers pass to WithField
PairInputs == { <<"id", "1">>, <<"attempt", "2">> }

\* the codes callers pass to WithGRPCCode
GRPCCodes == {OK, NotFound}

\* the trace ids a context carries
TraceIDs == {"abc", "xyz"}

\* New's inputs: two templates of the examples, a third one sharing a service
\* and code with the first, and one whose message is not valid UTF-8.
NewInputs == { <<"user-service", "US-404", "user not found">>,
               <<"database", "DB-500", "internal database error">>,
               <<"user-service", "US-404", BadStr>> }

EmptyFields == [k \in {} |-> ""]

\* the maps callers pass: an empty one, one that overwrites the "id" WithField
\* sets, one with two pairs
FieldInputs == { EmptyFields,
                 [k \in {"id"} |-> "2"],
                 [k \in {"id", "attempt"} |-> "1"] }

\* context.Context as far as TraceIDKey{} goes: <<>> carries no trace id
Contexts == {<<>>} \cup { <<t>> : t \in TraceIDs }

----------------------------------------------------------------------------
(* What a call returns: the memory after it, its result, whether it panicked *)

Res(h, m, r) == [heap |-> h, maps |-> m, ret |-> r, panic |-> FALSE]

\* a nil pointer dereference or a method call on a nil interface
Panics(h, m) == [heap |-> h, maps |-> m, ret |-> NilPtr, panic |-> TRUE]

\* what a `range fields` or `fields[k]` sees; a nil map reads as an empty one
Contents(m, fields) == IF fields = NilMap THEN EmptyFields ELSE m[fields]

\* the map made by the two loops of AddFields: e's pairs, then the argument's
MergeFields(old, new) ==
    [k \in DOMAIN old \cup DOMAIN new |-> IF k \in DOMAIN new THEN new[k] ELSE old[k]]

\* the Go statement fields[key] = value, on a map that is not nil
SetKey(m, fields, key, value) ==
    [m EXCEPT ![fields] = MergeFields(@, [k \in {key} |-> value])]

----------------------------------------------------------------------------
(* error.go *)

AppErrorStruct(service, code, message, fields, cause, grpcCode, traceID) ==
    [Service |-> service, Code |-> code, Message |-> message, Fields |-> fields,
     cause |-> cause, grpcCode |-> grpcCode, traceID |-> traceID]

New(h, m, service, code, message) ==
    Res(Append(h, AppErrorStruct(service, code, message, NilMap, NilErr, 0, "")),
        m, Len(h) + 1)

\* Wrap without its nil check: it wraps "no error" too
WrapNoNilCheck(h, m, err, appErr) ==
    IF appErr = NilPtr THEN Panics(h, m)
    ELSE Res(Append(h, [h[appErr] EXCEPT !.cause = err]), m, Len(h) + 1)

\* Wrap that stores the cause in the template itself and returns the template
WrapInPlace(h, m, err, appErr) ==
    IF err = NilErr THEN Res(h, m, NilPtr)
    ELSE IF appErr = NilPtr THEN Panics(h, m)
    ELSE Res([h EXCEPT ![appErr].cause = err], m, appErr)

Wrap(h, m, err, appErr) ==
    IF err = NilErr THEN Res(h, m, NilPtr)
    ELSE IF appErr = NilPtr THEN Panics(h, m)
    ELSE Res(Append(h, [h[appErr] EXCEPT !.cause = err]), m, Len(h) + 1)

\* AddFields that writes the pairs into the receiver's own map and returns the
\* receiver (as the draft of package errors did in its WithFields)
AddFieldsInPlace(h, m, e, fields) ==
    IF Cardinality(DOMAIN fields) = 0 THEN Res(h, m, e)
    ELSE IF e = NilPtr THEN Panics(h, m)
    ELSE IF h[e].Fields = NilMap
         THEN Res([h EXCEPT ![e].Fields = Len(m) + 1], Append(m, fields), e)
         ELSE Res(h, [m EXCEPT ![h[e].Fields] = MergeFields(@, fields)], e)

\* AddFields that copies the argument's pairs first and the receiver's after
\* them, so that the receiver wins a conflict
AddFieldsReceiverWins(h, m, e, fields) ==
    IF Cardinality(DOMAIN fields) = 0 THEN Res(h, m, e)
    ELSE IF e = NilPtr THEN Panics(h, m)
    ELSE LET newFields == MergeFields(fields, Contents(m, h[e].Fields))
             m2 == Append(m, newFields)
         IN  Res(Append(h, [h[e] EXCEPT !.Fields = Len(m2)]), m2, Len(h) + 1)

\* fields: the contents of the argument map, which AddFields only reads
AddFields(h, m, e, fields) ==
    IF Cardinality(DOMAIN fields) = 0 THEN Res(h, m, e)
    ELSE IF e = NilPtr THEN Panics(h, m)
    ELSE LET newFields == MergeFields(Contents(m, h[e].Fields), fields)
             m2 == Append(m, newFields)
         IN  Res(Append(h, [h[e] EXCEPT !.Fields = Len(m2)]), m2, Len(h) + 1)

WithField(h, m, e, key, value) ==
    AddFields(h, m, e, [k \in {key} |-> value])

\* fields: the argument map itself, which the new struct keeps
WithFields(h, m, e, fields) ==
    IF e = NilPtr THEN Panics(h, m)
    ELSE Res(Append(h, [h[e] EXCEPT !.Fields = fields]), m, Len(h) + 1)

Unwrap(h, m, e) ==
    IF e = NilPtr THEN Panics(h, m) ELSE Res(h, m, h[e].cause)

StdErrText == "connection refused"   \* errors.New("connection refused").Error()

\* fmt's %q: the string in double quotes, a byte that is not UTF-8 escaped
Quote(s) == "\"" \o (IF s = BadStr THEN "\\xff" ELSE s) \o "\""

\* the orders in which `range` can visit the keys: each key once, in any order
RangeOrders(keys) ==
    { o \in [1..Cardinality(keys) -> keys] : \A k \in keys : \E i \in DOMAIN o : o[i] = k }

\* the loop of Error over the pairs, from the i-th key visited on
RECURSIVE FieldsText(_, _, _)
FieldsText(fields, order, i) ==
    IF i > Len(order) THEN ""
    ELSE (IF i > 1 THEN ", " ELSE "") \o Quote(order[i]) \o ":" \o Quote(fields[order[i]])
         \o FieldsText(fields, order, i + 1)

\* err.Error() dereferences a nil pointer: err is nil, or a nil *AppError ends
\* the chain of causes
RECURSIVE ErrorPanics(_, _)
ErrorPanics(h, err) ==
    IF err = StdErr THEN FALSE
    ELSE IF err = NilErr \/ err = TypedNil THEN TRUE
    ELSE h[err].cause # NilErr /\ ErrorPanics(h, h[err].cause)

\* Error that writes the fields segment for an empty map too (as the README's
\* sample output shows it)
RECURSIVE ErrorAlwaysFields(_, _, _)
ErrorAlwaysFields(h, m, e) ==
    LET fields == Contents(m, h[e].Fields)
        msg == "[" \o h[e].Service \o ":" \o h[e].Code \o "] " \o h[e].Message
        withFields == { msg \o " [fields:{" \o FieldsText(fields, order, 1) \o "}]" :
                          order \in RangeOrders(DOMAIN fields) }
        cause == h[e].cause
        causeTexts == IF cause = NilErr THEN {""}
                      ELSE IF cause = StdErr THEN {": " \o StdErrText}
                      ELSE { ": " \o t : t \in ErrorAlwaysFields(h, m, cause) }
    IN  { a \o b : a \in withFields, b \in causeTexts }

\* the strings e.Error() can return for a non-nil e whose chain holds no nil
\* pointer: one for each order in which the maps of the chain are ranged over
RECURSIVE Error(_, _, _)
Error(h, m, e) ==
    LET fields == Contents(m, h[e].Fields)
        msg == "[" \o h[e].Service \o ":" \o h[e].Code \o "] " \o h[e].Message
        withFields == IF Cardinality(DOMAIN fields) > 0
                      THEN { msg \o " [fields:{" \o FieldsText(fields, order, 1) \o "}]" :
                               order \in RangeOrders(DOMAIN fields) }
                      ELSE {msg}
        cause == h[e].cause
        causeTexts == IF cause = NilErr THEN {""}
                      ELSE IF cause = StdErr THEN {": " \o StdErrText}
                      ELSE { ": " \o t : t \in Error(h, m, cause) }
    IN  { a \o b : a \in withFields, b \in causeTexts }

\* target.(*AppError): a std error and a nil interface fail the assertion
IsAppError(target) == target > 0 \/ target = TypedNil

\* Is that ranges over the receiver's fields and looks them up in the target
IsReversed(h, m, e, target) ==
    IF ~IsAppError(target) THEN [ok |-> FALSE, panic |-> FALSE]
    ELSE IF e = NilPtr \/ target = TypedNil THEN [ok |-> FALSE, panic |-> TRUE]
    ELSE IF h[e].Service # h[target].Service \/ h[e].Code # h[target].Code
         THEN [ok |-> FALSE, panic |-> FALSE]
    ELSE LET tf == Contents(m, h[target].Fields)
             ef == Contents(m, h[e].Fields)
         IN  [ok |-> \A key \in DOMAIN ef : key \in DOMAIN tf /\ tf[key] = ef[key],
              panic |-> FALSE]

\* Is that checks the presence of the target's keys and not their values
IsKeysOnly(h, m, e, target) ==
    IF ~IsAppError(target) THEN [ok |-> FALSE, panic |-> FALSE]
    ELSE IF e = NilPtr \/ target = TypedNil THEN [ok |-> FALSE, panic |-> TRUE]
    ELSE IF h[e].Service # h[target].Service \/ h[e].Code # h[target].Code
         THEN [ok |-> FALSE, panic |-> FALSE]
    ELSE LET tf == Contents(m, h[target].Fields)
             ef == Contents(m, h[e].Fields)
         IN  [ok |-> \A key \in DOMAIN tf : key \in DOMAIN ef, panic |-> FALSE]

Is(h, m, e, target) ==
    IF ~IsAppError(target) THEN [ok |-> FALSE, panic |-> FALSE]
    ELSE IF e = NilPtr \/ target = TypedNil THEN [ok |-> FALSE, panic |-> TRUE]
    ELSE IF h[e].Service # h[target].Service \/ h[e].Code # h[target].Code
         THEN [ok |-> FALSE, panic |-> FALSE]
    ELSE LET tf == Contents(m, h[target].Fields)
             ef == Contents(m, h[e].Fields)
         IN  [ok |-> \A key \in DOMAIN tf : key \in DOMAIN ef /\ ef[key] = tf[key],
              panic |-> FALSE]

----------------------------------------------------------------------------
(* grpc.go; codes.Code is a uint32, so uint32(code) changes no value *)

\* WithGRPCCode that builds its result from the exported fields only, losing
\* the cause and the trace id
WithGRPCCodeFresh(h, m, e, code) ==
    IF e = NilPtr THEN Panics(h, m)
    ELSE Res(Append(h, AppErrorStruct(h[e].Service, h[e].Code, h[e].Message, h[e].Fields,
                                      NilErr, code, "")),
             m, Len(h) + 1)

WithGRPCCode(h, m, e, code) ==
    IF e = NilPtr THEN Panics(h, m)
    ELSE Res(Append(h, [h[e] EXCEPT !.grpcCode = code]), m, Len(h) + 1)

NilStatus == [isNil |-> TRUE, code |-> OK, message |-> "", details |-> <<>>]

StatusNew(code, message) ==
    [isNil |-> FALSE, code |-> code, message |-> message, details |-> <<>>]

ErrorDetail(service, code, message, fields) ==
    [kind |-> "ErrorDetail", Service |-> service, Code |-> code,
     Message |-> message, Fields |-> fields]

\* a detail of another message type
OtherDetail == [kind |-> "Other", Service |-> "", Code |-> "", Message |-> "",
                Fields |-> EmptyFields]

\* a string field of a proto3 message marshals only when it is valid UTF-8
ValidUTF8(s) == s # BadStr

Marshals(detail) ==
    /\ ValidUTF8(detail.Service) /\ ValidUTF8(detail.Code) /\ ValidUTF8(detail.Message)
    /\ \A k \in DOMAIN detail.Fields : ValidUTF8(k) /\ ValidUTF8(detail.Fields[k])

\* st.WithDetails(detail): refuses a status whose code is OK and a detail it
\* cannot marshal; the detail is stored by value (as bytes)
WithDetails(s, detail) ==
    IF s.code = OK \/ ~Marshals(detail)
    THEN [err |-> TRUE, st |-> s]
    ELSE [err |-> FALSE, st |-> [s EXCEPT !.details = Append(@, detail)]]

\* GRPCStatus without the substitution of codes.Unknown for codes.OK
GRPCStatusNoDefault(h, m, e) ==
    IF e = NilPtr THEN [st |-> NilStatus, panic |-> TRUE]
    ELSE LET s == StatusNew(h[e].grpcCode, h[e].Message)
             detail == ErrorDetail(h[e].Service, h[e].Code, h[e].Message,
                                   Contents(m, h[e].Fields))
             w == WithDetails(s, detail)
         IN  IF w.err
             THEN [st |-> StatusNew(Internal, "failed to marshal error"), panic |-> FALSE]
             ELSE [st |-> w.st, panic |-> FALSE]

\* GRPCStatus that, when the detail does not attach, returns the status it
\* had built without it
GRPCStatusNoDegrade(h, m, e) ==
    IF e = NilPtr THEN [st |-> NilStatus, panic |-> TRUE]
    ELSE LET code == IF h[e].grpcCode = OK THEN Unknown ELSE h[e].grpcCode
             s == StatusNew(code, h[e].Message)
             detail == ErrorDetail(h[e].Service, h[e].Code, h[e].Message,
                                   Contents(m, h[e].Fields))
         IN  [st |-> WithDetails(s, detail).st, panic |-> FALSE]

GRPCStatus(h, m, e) ==
    IF e = NilPtr THEN [st |-> NilStatus, panic |-> TRUE]
    ELSE LET code == IF h[e].grpcCode = OK THEN Unknown ELSE h[e].grpcCode
             s == StatusNew(code, h[e].Message)
             detail == ErrorDetail(h[e].Service, h[e].Code, h[e].Message,
                                   Contents(m, h[e].Fields))
             w == WithDetails(s, detail)
         IN  IF w.err
             THEN [st |-> StatusNew(Internal, "failed to marshal error"), panic |-> FALSE]
             ELSE [st |-> w.st, panic |-> FALSE]

\* the positions of the ErrorDetail records among st.Details()
ErrorDetailAt(s) == { i \in 1..Len(s.details) : s.details[i].kind = "ErrorDetail" }

Min(S) == CHOOSE x \in S : \A y \in S : x <= y

Max(S) == CHOOSE x \in S : \A y \in S : x >= y

\* FromGRPCStatus that goes on after a match, so that the last ErrorDetail wins
FromGRPCStatusLast(h, m, s) ==
    IF s.isNil THEN Res(h, m, NilPtr)
    ELSE IF ErrorDetailAt(s) # {}
    THEN LET detail == s.details[Max(ErrorDetailAt(s))]
             m2 == IF DOMAIN detail.Fields = {} THEN m ELSE Append(m, detail.Fields)
             fields == IF DOMAIN detail.Fields = {} THEN NilMap ELSE Len(m2)
         IN  Res(Append(h, AppErrorStruct(detail.Service, detail.Code, detail.Message,
                                          fields, NilErr, s.code, "")),
                 m2, Len(h) + 1)
    ELSE Res(Append(h, AppErrorStruct("unknown", "00000", s.message, NilMap, NilErr,
                                      s.code, "")),
             m, Len(h) + 1)

\* FromGRPCStatus that forgets the Fields of the detail
FromGRPCStatusNoFields(h, m, s) ==
    IF s.isNil THEN Res(h, m, NilPtr)
    ELSE IF ErrorDetailAt(s) # {}
    THEN LET detail == s.details[Min(ErrorDetailAt(s))]
         IN  Res(Append(h, AppErrorStruct(detail.Service, detail.Code, detail.Message,
                                          NilMap, NilErr, s.code, "")),
                 m, Len(h) + 1)
    ELSE Res(Append(h, AppErrorStruct("unknown", "00000", s.message, NilMap, NilErr,
                                      s.code, "")),
             m, Len(h) + 1)

\* FromGRPCStatus that takes the first detail for an ErrorDetail without
\* testing its type
FromGRPCStatusUnchecked(h, m, s) ==
    IF s.isNil THEN Res(h, m, NilPtr)
    ELSE IF Len(s.details) > 0
    THEN LET detail == s.details[1]
             m2 == IF DOMAIN detail.Fields = {} THEN m ELSE Append(m, detail.Fields)
             fields == IF DOMAIN detail.Fields = {} THEN NilMap ELSE Len(m2)
         IN  Res(Append(h, AppErrorStruct(detail.Service, detail.Code, detail.Message,
                                          fields, NilErr, s.code, "")),
                 m2, Len(h) + 1)
    ELSE Res(Append(h, AppErrorStruct("unknown", "00000", s.message, NilMap, NilErr,
                                      s.code, "")),
             m, Len(h) + 1)

FromGRPCStatus(h, m, s) ==
    IF s.isNil THEN Res(h, m, NilPtr)
    ELSE IF ErrorDetailAt(s) # {}
    THEN LET detail == s.details[Min(ErrorDetailAt(s))]
             \* GetFields(): the map the decoder built, nil when no entry was sent
             m2 == IF DOMAIN detail.Fields = {} THEN m ELSE Append(m, detail.Fields)
             fields == IF DOMAIN detail.Fields = {} THEN NilMap ELSE Len(m2)
         IN  Res(Append(h, AppErrorStruct(detail.Service, detail.Code, detail.Message,
                                          fields, NilErr, s.code, "")),
                 m2, Len(h) + 1)
    ELSE Res(Append(h, AppErrorStruct("unknown", "00000", s.message, NilMap, NilErr,
                                      s.code, "")),
             m, Len(h) + 1)

----------------------------------------------------------------------------
(* gateway.go, the ToJSON that reads TraceIDKey{} from the context *)

NoJSON == [keys |-> {}, service |-> "", code |-> "", message |-> "",
           fields |-> EmptyFields, trace_id |-> "", error |-> ""]

\* encoding/json writes U+FFFD for the bytes of a string that are not UTF-8
JSONString(s) == IF s = BadStr THEN "<U+FFFD>" ELSE s

\* json.Marshal of struct{*alias; TraceID}: the tags of AppError decide the keys
Marshal(a, fields, traceID) ==
    [keys |-> {"message"}
              \cup (IF a.Service # "" THEN {"service"} ELSE {})
              \cup (IF a.Code # "" THEN {"code"} ELSE {})
              \cup (IF DOMAIN fields # {} THEN {"fields"} ELSE {})
              \cup (IF traceID # "" THEN {"trace_id"} ELSE {}),
     service |-> JSONString(a.Service), code |-> JSONString(a.Code),
     message |-> JSONString(a.Message),
     fields |-> [k \in DOMAIN fields |-> JSONString(fields[k])],
     trace_id |-> JSONString(traceID), error |-> ""]

\* {"error": err.Error()} for an error that is no *AppError
PlainJSON(text) == [NoJSON EXCEPT !.keys = {"error"}, !.error = text]

\* ctx.Value(TraceIDKey{}).(string)
HasTrace(ctx) == Len(ctx) > 0

ToJSON(h, m, ctx, err) ==
    IF ~IsAppError(err)
    THEN IF err = NilErr THEN [heap |-> h, out |-> NoJSON, panic |-> TRUE]
         ELSE [heap |-> h, out |-> PlainJSON(StdErrText), panic |-> FALSE]
    ELSE IF err = TypedNil THEN [heap |-> h, out |-> NoJSON, panic |-> TRUE]
    ELSE LET h2 == IF HasTrace(ctx) THEN [h EXCEPT ![err].traceID = ctx[1]] ELSE h
         IN  [heap |-> h2,
              out |-> Marshal(h2[err], Contents(m, h2[err].Fields), h2[err].traceID),
              panic |-> FALSE]

----------------------------------------------------------------------------
(* The callers' inputs *)

Ptrs == 0..Len(heap)                                   \* every *AppError a caller can hold
Errs == {NilErr, StdErr, TypedNil} \cup 1..Len(heap)   \* every error a caller can pass
MapRefs == 0..Len(maps)                                \* every ErrorFields a caller can hold

DetailInputs ==
    { OtherDetail,
      ErrorDetail("user-service", "US-404", "user not found", [k \in {"id"} |-> "1"]),
      ErrorDetail("database", "DB-500", "internal database error", EmptyFields) }

DetailLists == UNION { [1..n -> DetailInputs] : n \in 0..MaxDetails }

\* statuses that arrive from another process
StatusInputs ==
    {NilStatus} \cup
    { [isNil |-> FALSE, code |-> cm[1], message |-> cm[2], details |-> ds] :
        cm \in {<<NotFound, "not found">>, <<OK, "">>}, ds \in DetailLists }

----------------------------------------------------------------------------
(* Sequential callers: one call at a time *)

Goroutines == 1..NumGoroutines

concVars == <<pc, gcall, gres, wrote>>

\* a call: its name, receiver, argument, the contents of its map argument,
\* its context, and what it returned (a pointer or error, a bool, a status, bytes,
\* a string)
Call(op, recv, arg, fields, ctx, ret, ok, panic, s, json) ==
    [op |-> op, recv |-> recv, arg |-> arg, fields |-> fields, ctx |-> ctx,
     ret |-> ret, ok |-> ok, panic |-> panic, st |-> s, out |-> json, text |-> ""]

NoCall == Call("", NilPtr, 0, EmptyFields, <<>>, NilPtr, FALSE, FALSE, NilStatus, NoJSON)

InBounds(r) == Len(r.heap) <= cap[1] /\ Len(r.maps) <= cap[2]

\* the effect of a call that returns a *AppError (or an error); after a panic
\* the map built for the call is garbage
Returns(r, op, recv, arg, fields) ==
    /\ InBounds(r)
    /\ heap' = r.heap
    /\ maps' = IF r.panic THEN maps ELSE r.maps
    /\ last' = Call(op, recv, arg, fields, <<>>, r.ret, FALSE, r.panic, NilStatus, NoJSON)
    /\ UNCHANGED <<cap, concVars>>

CallNew ==
    \E in \in NewInputs :
        Returns(New(heap, maps, in[1], in[2], in[3]), "New", NilPtr, 0, EmptyFields)

CallWrap ==
    \E err \in Errs, appErr \in Ptrs :
        Returns(Wrap(heap, maps, err, appErr), "Wrap", appErr, err, EmptyFields)

CallWithField ==
    \E e \in Ptrs, kv \in PairInputs :
        Returns(WithField(heap, maps, e, kv[1], kv[2]), "WithField", e, 0,
                [k \in {kv[1]} |-> kv[2]])

\* the argument is a map the caller builds for the call (a nil map reads as
\* the empty one)
CallAddFields ==
    \E e \in Ptrs, fields \in FieldInputs :
        Returns(AddFields(heap, maps, e, fields), "AddFields", e, 0, fields)

\* the argument is a map some struct holds, nil, or a map the caller builds for the call
CallWithFields ==
    \E e \in Ptrs :
        \/ \E fields \in MapRefs :
              Returns(WithFields(heap, maps, e, fields), "WithFields", e, fields,
                      Contents(maps, fields))
        \/ \E lit \in FieldInputs :
              Returns(WithFields(heap, Append(maps, lit), e, Len(maps) + 1),
                      "WithFields", e, Len(maps) + 1, lit)

\* a caller stores a pair into a map it holds: one it passed to WithFields or
\* the exported Fields of a value
CallerSetsKey ==
    \E fields \in MapRefs \ {NilMap}, kv \in PairInputs :
        /\ maps' = SetKey(maps, fields, kv[1], kv[2])
        /\ last' = Call("SetKey", NilPtr, fields, [k \in {kv[1]} |-> kv[2]], <<>>, NilPtr,
                        FALSE, FALSE, NilStatus, NoJSON)
        /\ UNCHANGED <<heap, cap, concVars>>

CallWithGRPCCode ==
    \E e \in Ptrs, code \in GRPCCodes :
        Returns(WithGRPCCode(heap, maps, e, code), "WithGRPCCode", e, code, EmptyFields)

CallUnwrap ==
    \E e \in Ptrs :
        Returns(Unwrap(heap, maps, e), "Unwrap", e, 0, EmptyFields)

CallError ==
    \E e \in Ptrs :
        /\ IF ErrorPanics(heap, e)
           THEN last' = Call("Error", e, 0, EmptyFields, <<>>, NilPtr, FALSE, TRUE,
                             NilStatus, NoJSON)
           ELSE \E t \in Error(heap, maps, e) :
                   last' = [Call("Error", e, 0, EmptyFields, <<>>, NilPtr, FALSE, FALSE,
                                 NilStatus, NoJSON) EXCEPT !.text = t]
        /\ UNCHANGED <<heap, maps, cap, concVars>>

CallIs ==
    \E e \in Ptrs, target \in Errs :
        LET r == Is(heap, maps, e, target) IN
        /\ last' = Call("Is", e, target, EmptyFields, <<>>, NilPtr, r.ok, r.panic,
                        NilStatus, NoJSON)
        /\ UNCHANGED <<heap, maps, cap, concVars>>

CallGRPCStatus ==
    \E e \in Ptrs :
        LET r == GRPCStatus(heap, maps, e) IN
        /\ last' = Call("GRPCStatus", e, 0, EmptyFields, <<>>, NilPtr, FALSE, r.panic,
                        r.st, NoJSON)
        /\ UNCHANGED <<heap, maps, cap, concVars>>

\* the status decoded is the one GRPCStatus just returned or one that arrived;
\* recv records the struct it was encoded from, if any
CallFromGRPCStatus ==
    \E s \in StatusInputs \cup {last.st} :
        LET r == FromGRPCStatus(heap, maps, s)
            from == IF last.op = "GRPCStatus" /\ ~last.panic /\ s = last.st
                    THEN last.recv ELSE NilPtr
        IN
        /\ InBounds(r)
        /\ heap' = r.heap
        /\ maps' = r.maps
        /\ last' = Call("FromGRPCStatus", from, 0, EmptyFields, <<>>, r.ret, FALSE,
                        r.panic, s, NoJSON)
        /\ UNCHANGED <<cap, concVars>>

CallToJSON ==
    \E ctx \in Contexts, err \in Errs :
        LET r == ToJSON(heap, maps, ctx, err) IN
        /\ heap' = r.heap
        /\ last' = Call("ToJSON", NilPtr, err, EmptyFields, ctx, NilPtr, FALSE, r.panic,
                        NilStatus, r.out)
        /\ UNCHANGED <<maps, cap, concVars>>

\* what a caller can observe of a call's result: the struct a returned pointer
\* leads to and the contents of its map, or the bool, status or bytes returned
Outcome(isNil, val, fields, ok, s, json, panic) ==
    [isNil |-> isNil, val |-> val, fields |-> fields, ok |-> ok, st |-> s,
     out |-> json, panic |-> panic]

ZeroStruct == AppErrorStruct("", "", "", NilMap, NilErr, 0, "")

NoOutcome == Outcome(TRUE, ZeroStruct, EmptyFields, FALSE, NilStatus, NoJSON, FALSE)

\* the outcome of a call that returned the pointer r.ret
PtrOutcome(r) ==
    IF r.panic \/ r.ret = NilPtr
    THEN [NoOutcome EXCEPT !.panic = r.panic]
    ELSE Outcome(FALSE, [r.heap[r.ret] EXCEPT !.Fields = NilMap],
                 Contents(r.maps, r.heap[r.ret].Fields), FALSE, NilStatus, NoJSON, FALSE)

IdleGoroutines ==
    /\ pc = [g \in Goroutines |-> "idle"]
    /\ gcall = [g \in Goroutines |-> NoCall]
    /\ gres = [g \in Goroutines |-> NoOutcome]
    /\ wrote = {}

\* no struct yet, no call made
InitWith(objs, nmaps) ==
    /\ heap = <<>>
    /\ maps = <<>>
    /\ last = NoCall
    /\ cap = <<objs, nmaps>>
    /\ IdleGoroutines

(* Construction and enrichment *)
Init == InitWith(MaxObjs, MaxMaps)

Next ==
    \/ CallNew
    \/ CallWrap
    \/ CallWithField
    \/ CallAddFields
    \/ CallWithFields
    \/ CallWithGRPCCode

Spec == Init /\ [][Next]_vars

(* Causal chains *)
NextWrap ==
    \/ CallNew
    \/ CallWrap
    \/ CallWithField
    \/ CallUnwrap

SpecWrap == Init /\ [][NextWrap]_vars

(* Matching against a template *)
NextMatch ==
    \/ CallNew
    \/ CallWithField
    \/ CallAddFields
    \/ CallWithGRPCCode
    \/ CallIs

SpecMatch == Init /\ [][NextMatch]_vars

(* Transcoding to and from a gRPC status *)
NextCodec ==
    \/ CallNew
    \/ CallAddFields
    \/ CallWithGRPCCode
    \/ CallGRPCStatus
    \/ CallFromGRPCStatus

InitIO == InitWith(MaxObjsIO, MaxMaps)

SpecCodec == InitIO /\ [][NextCodec]_vars

(* Serialisation for logs *)
NextJSON ==
    \/ CallNew
    \/ CallWithField
    \/ CallGRPCStatus
    \/ CallToJSON

SpecJSON == InitIO /\ [][NextJSON]_vars

(* Causal chains across construction, enrichment, encoding and decoding *)
NextChain ==
    \/ CallNew
    \/ CallWrap
    \/ CallWithField
    \/ CallWithGRPCCode
    \/ CallUnwrap
    \/ CallGRPCStatus
    \/ CallFromGRPCStatus

SpecChain == InitIO /\ [][NextChain]_vars

(* Builders applied to wrapped values *)
NextBuild ==
    \/ CallNew
    \/ CallWrap
    \/ CallWithField
    \/ CallWithGRPCCode
    \/ CallUnwrap

SpecBuild == Init /\ [][NextBuild]_vars

(* Field maps, which callers hold too *)
NextFields ==
    \/ CallNew
    \/ CallWithField
    \/ CallAddFields
    \/ CallWithFields
    \/ CallerSetsKey

SpecFields == Init /\ [][NextFields]_vars

(* Rendering for logs *)
NextRender ==
    \/ CallNew
    \/ CallWrap
    \/ CallWithField
    \/ CallAddFields
    \/ CallError

SpecRender == Init /\ [][NextRender]_vars

(* Every operation of the package, absent inputs included *)
NextCore ==
    \/ CallNew
    \/ CallWrap
    \/ CallWithField
    \/ CallAddFields
    \/ CallWithFields
    \/ CallWithGRPCCode
    \/ CallError
    \/ CallUnwrap
    \/ CallIs
    \/ CallGRPCStatus
    \/ CallFromGRPCStatus
    \/ CallToJSON

SpecCore == InitIO /\ [][NextCore]_vars

----------------------------------------------------------------------------
(* Concurrent callers of one package-level template (examples.go: ErrUserNotFound). *)
(* Nothing synchronises the goroutines, so each statement is a step of its own.    *)

Template == 1

TornStr == "<torn>"   \* a string header read while another goroutine stores it

\* the calls made on the shared template
ConcCalls ==
    { Call("Unwrap", Template, 0, EmptyFields, <<>>, NilPtr, FALSE, FALSE, NilStatus, NoJSON),
      Call("Is", Template, Template, EmptyFields, <<>>, NilPtr, FALSE, FALSE, NilStatus, NoJSON),
      Call("WithField", Template, 0, [k \in {"id"} |-> "1"], <<>>, NilPtr, FALSE, FALSE,
           NilStatus, NoJSON),
      Call("AddFields", Template, 0, [k \in {"id", "attempt"} |-> "1"], <<>>, NilPtr, FALSE,
           FALSE, NilStatus, NoJSON),
      Call("WithFields", Template, 0, [k \in {"id"} |-> "2"], <<>>, NilPtr, FALSE, FALSE,
           NilStatus, NoJSON),
      Call("WithGRPCCode", Template, NotFound, EmptyFields, <<>>, NilPtr, FALSE, FALSE,
           NilStatus, NoJSON),
      Call("Wrap", Template, StdErr, EmptyFields, <<>>, NilPtr, FALSE, FALSE, NilStatus, NoJSON),
      Call("GRPCStatus", Template, 0, EmptyFields, <<>>, NilPtr, FALSE, FALSE, NilStatus, NoJSON) }
    \cup
    { Call("ToJSON", NilPtr, Template, EmptyFields, ctx, NilPtr, FALSE, FALSE, NilStatus, NoJSON) :
        ctx \in Contexts }

\* the call c run to its end on memory h, m, with no other goroutine
RunCall(h, m, c) ==
    CASE c.op = "Unwrap" ->
           LET r == Unwrap(h, m, c.recv)
           IN  [heap |-> h, maps |-> m,
                res |-> [NoOutcome EXCEPT !.isNil = (r.ret = NilErr), !.panic = r.panic]]
      [] c.op = "Is" ->
           LET r == Is(h, m, c.recv, c.arg)
           IN  [heap |-> h, maps |-> m,
                res |-> [NoOutcome EXCEPT !.ok = r.ok, !.panic = r.panic]]
      [] c.op = "WithField" ->
           LET k == CHOOSE k \in DOMAIN c.fields : TRUE
               r == WithField(h, m, c.recv, k, c.fields[k])
           IN  [heap |-> r.heap, maps |-> r.maps, res |-> PtrOutcome(r)]
      [] c.op = "AddFields" ->
           LET r == AddFields(h, m, c.recv, c.fields)
           IN  [heap |-> r.heap, maps |-> r.maps, res |-> PtrOutcome(r)]
      [] c.op = "WithFields" ->
           LET r == WithFields(h, Append(m, c.fields), c.recv, Len(m) + 1)
           IN  [heap |-> r.heap, maps |-> r.maps, res |-> PtrOutcome(r)]
      [] c.op = "WithGRPCCode" ->
           LET r == WithGRPCCode(h, m, c.recv, c.arg)
           IN  [heap |-> r.heap, maps |-> r.maps, res |-> PtrOutcome(r)]
      [] c.op = "Wrap" ->
           LET r == Wrap(h, m, c.arg, c.recv)
           IN  [heap |-> r.heap, maps |-> r.maps, res |-> PtrOutcome(r)]
      [] c.op = "GRPCStatus" ->
           LET r == GRPCStatus(h, m, c.recv)
           IN  [heap |-> h, maps |-> m,
                res |-> [NoOutcome EXCEPT !.st = r.st, !.panic = r.panic]]
      [] c.op = "ToJSON" ->
           LET r == ToJSON(h, m, c.ctx, c.arg)
           IN  [heap |-> r.heap, maps |-> m,
                res |-> [NoOutcome EXCEPT !.out = r.out, !.panic = r.panic]]

\* the stores other goroutines made into the template's traceID
OtherStores(g) == { w \in wrote : w[1] # g }

\* what goroutine g may read from the template's traceID: the word in memory
\* or, in a race with another goroutine's store, any value of that race
RacyTraceID(g) ==
    IF OtherStores(g) = {}
    THEN {heap[Template].traceID}
    ELSE {heap[Template].traceID, "", TornStr} \cup { w[2] : w \in OtherStores(g) }

GoBegin(g) ==
    /\ pc[g] = "idle"
    /\ \E c \in ConcCalls : gcall' = [gcall EXCEPT ![g] = c]
    /\ pc' = [pc EXCEPT ![g] = "run"]
    /\ UNCHANGED <<heap, maps, last, cap, gres, wrote>>

\* a call that reads the template and writes only memory it allocated; a
\* builder's `copyErr := *e` reads traceID with the other fields
GoRun(g) ==
    /\ pc[g] = "run"
    /\ gcall[g].op # "ToJSON"
    /\ \E t \in RacyTraceID(g) :
          LET r == RunCall(heap, maps, gcall[g])
              fresh == Len(r.heap) > Len(heap)
          IN  /\ heap' = IF fresh THEN [r.heap EXCEPT ![Len(r.heap)].traceID = t]
                         ELSE r.heap
              /\ maps' = r.maps
              /\ gres' = [gres EXCEPT ![g] =
                            IF fresh THEN [r.res EXCEPT !.val.traceID = t] ELSE r.res]
    /\ pc' = [pc EXCEPT ![g] = "done"]
    /\ UNCHANGED <<last, cap, gcall, wrote>>

\* ToJSON up to `appErr.traceID = traceID`
GoToJSONStore(g) ==
    /\ pc[g] = "run"
    /\ gcall[g].op = "ToJSON"
    /\ IF HasTrace(gcall[g].ctx)
       THEN /\ heap' = [heap EXCEPT ![gcall[g].arg].traceID = gcall[g].ctx[1]]
            /\ wrote' = wrote \cup {<<g, gcall[g].ctx[1]>>}
       ELSE UNCHANGED <<heap, wrote>>
    /\ pc' = [pc EXCEPT ![g] = "marshal"]
    /\ UNCHANGED <<maps, last, cap, gcall, gres>>

\* ToJSON from json.Marshal on: reads appErr.traceID and the exported fields
GoToJSONMarshal(g) ==
    /\ pc[g] = "marshal"
    /\ \E t \in RacyTraceID(g) :
          LET a == heap[gcall[g].arg]
          IN  gres' = [gres EXCEPT ![g] =
                          [NoOutcome EXCEPT !.out = Marshal(a, Contents(maps, a.Fields), t)]]
    /\ pc' = [pc EXCEPT ![g] = "done"]
    /\ UNCHANGED <<heap, maps, last, cap, gcall, wrote>>

InitConc ==
    /\ heap = New(<<>>, <<>>, "user-service", "US-404", "user not found").heap
    /\ maps = <<>>
    /\ last = NoCall
    /\ cap = <<1 + NumGoroutines, NumGoroutines>>
    /\ IdleGoroutines

NextConc ==
    \E g \in Goroutines :
        \/ GoBegin(g)
        \/ GoRun(g)
        \/ GoToJSONStore(g)
        \/ GoToJSONMarshal(g)

SpecConc == InitConc /\ [][NextConc]_vars

\* what the call of goroutine g returns when it runs alone on the template
Alone(g) ==
    RunCall(New(<<>>, <<>>, "user-service", "US-404", "user not found").heap, <<>>,
            gcall[g]).res

----------------------------------------------------------------------------
(* Claims about construction and enrichment (Spec) *)

Enrichers == {"Wrap", "WithField", "AddFields", "WithFields", "WithGRPCCode"}

\* the call just made enriched a value e: a builder call on a non-nil e (AddFields
\* with a non-empty argument), or Wrap of a non-nil cause with e as the template
Enriched(c) ==
    /\ c.op \in Enrichers
    /\ c.recv # NilPtr
    /\ c.op = "Wrap" => c.arg # NilErr
    /\ c.op = "AddFields" => DOMAIN c.fields # {}

\* C1: an enrichment call (WithField, AddFields with a non-empty argument,
\* WithFields, WithGRPCCode, Wrap with e as the template) returns a pointer
\* distinct from e and from every value that existed, and leaves e's service,
\* code, message, field-map contents, cause and transport code as they were.
C1_EnrichmentLeavesReceiver ==
    [][ Enriched(last') =>
          LET e == last'.recv IN
          /\ ~last'.panic
          /\ last'.ret # e
          /\ last'.ret \notin 1..Len(heap)
          /\ heap'[e].Service = heap[e].Service
          /\ heap'[e].Code = heap[e].Code
          /\ heap'[e].Message = heap[e].Message
          /\ Contents(maps', heap'[e].Fields) = Contents(maps, heap[e].Fields)
          /\ heap'[e].cause = heap[e].cause
          /\ heap'[e].grpcCode = heap[e].grpcCode ]_vars

\* C1 witness: AddFields has overwritten, in its result, a key that its receiver
\* holds with another value, and the receiver still holds the old value.
C1_Witness ==
    /\ last.op = "AddFields" /\ ~last.panic
    /\ last.recv # NilPtr /\ last.ret = Len(heap) /\ last.ret # last.recv
    /\ \E k \in DOMAIN last.fields :
          /\ k \in DOMAIN Contents(maps, heap[last.recv].Fields)
          /\ Contents(maps, heap[last.recv].Fields)[k] # last.fields[k]
          /\ Contents(maps, heap[last.ret].Fields)[k] = last.fields[k]

----------------------------------------------------------------------------
(* Claims about field maps (SpecFields) *)

\* C14: e.AddFields(f) with an empty or nil f returns e itself and allocates
\* nothing; with a non-empty f it returns a new value whose field map has
\* exactly the keys of e's fields and of f, each key of f with f's value and
\* every other key with e's value; e.WithField(k, v) is e.AddFields({k: v}).
C14_AddFieldsMerges ==
    [][ /\ (last'.op = "AddFields" /\ DOMAIN last'.fields = {}) =>
              /\ ~last'.panic
              /\ last'.ret = last'.recv
              /\ heap' = heap /\ maps' = maps
        /\ (last'.op = "AddFields" /\ DOMAIN last'.fields # {} /\ last'.recv # NilPtr) =>
              LET f == last'.fields
                  old == Contents(maps, heap[last'.recv].Fields)
                  new == Contents(maps', heap'[last'.ret].Fields)
              IN  /\ ~last'.panic
                  /\ last'.ret = Len(heap) + 1
                  /\ heap'[last'.ret].Fields = Len(maps) + 1
                  /\ DOMAIN new = DOMAIN old \cup DOMAIN f
                  /\ \A k \in DOMAIN f : new[k] = f[k]
                  /\ \A k \in DOMAIN old \ DOMAIN f : new[k] = old[k]
        /\ last'.op = "WithField" =>
              LET r == AddFields(heap, maps, last'.recv, last'.fields)
              IN  /\ last'.panic = r.panic /\ last'.ret = r.ret
                  /\ heap' = r.heap
                  /\ ~r.panic => maps' = r.maps ]_vars

\* C14 witness: AddFields has returned a value in which the argument's "id"
\* replaced the receiver's and the receiver's "attempt" was kept.
C14_Witness ==
    /\ last.op = "AddFields" /\ ~last.panic /\ last.recv # NilPtr
    /\ last.fields = [k \in {"id"} |-> "2"]
    /\ Contents(maps, heap[last.recv].Fields) = [k \in {"id", "attempt"} |-> "1"]
    /\ Contents(maps, heap[last.ret].Fields)
          = [k \in {"id", "attempt"} |-> IF k = "id" THEN "2" ELSE "1"]

\* C16: e.WithFields(f) returns a new value whose field map is exactly f and
\* is a map of its own: a pair the caller stores afterwards into f, or into
\* e's own map, does not change the fields of the returned value.
C16_WithFieldsOwnsItsMap ==
    \A e \in 1..Len(heap), f \in MapRefs, kv \in PairInputs :
        LET r == WithFields(heap, maps, e, f)
            fields == r.heap[r.ret].Fields
        IN  /\ ~r.panic /\ r.ret # e
            /\ Contents(r.maps, fields) = Contents(maps, f)
            /\ f # NilMap =>
                  Contents(SetKey(r.maps, f, kv[1], kv[2]), fields) = Contents(r.maps, fields)
            /\ heap[e].Fields # NilMap =>
                  Contents(SetKey(r.maps, heap[e].Fields, kv[1], kv[2]), fields)
                      = Contents(r.maps, fields)

----------------------------------------------------------------------------
(* Claims about causal chains (SpecWrap) *)

\* C7: Wrap(nil, t) returns nil for every template t; for a non-nil cause c,
\* Wrap(c, t) returns a new value with t's service, code, message, fields and
\* transport code whose Unwrap() is exactly c; New yields a value whose
\* Unwrap() is nil.
C7_WrapLinksCause ==
    [][ /\ (last'.op = "Wrap" /\ last'.arg = NilErr) =>
              (last'.ret = NilPtr /\ ~last'.panic /\ heap' = heap)
        /\ (last'.op = "Wrap" /\ last'.arg # NilErr /\ last'.recv # NilPtr) =>
              /\ ~last'.panic
              /\ last'.ret = Len(heap) + 1
              /\ heap'[last'.ret] = [heap[last'.recv] EXCEPT !.cause = last'.arg]
              /\ maps' = maps
              /\ Unwrap(heap', maps', last'.ret) = Res(heap', maps', last'.arg)
        /\ last'.op = "New" =>
              /\ last'.ret = Len(heap) + 1
              /\ Unwrap(heap', maps', last'.ret) = Res(heap', maps', NilErr)
        /\ (last'.op = "Unwrap" /\ last'.recv # NilPtr) =>
              (~last'.panic /\ last'.ret = heap[last'.recv].cause) ]_vars

\* C7 witness: Unwrap of a value that wraps another AppError, made from a
\* template with fields, has returned that AppError.
C7_Witness ==
    /\ last.op = "Unwrap" /\ ~last.panic
    /\ last.recv # NilPtr /\ last.ret > 0 /\ last.ret # last.recv
    /\ heap[last.recv].cause = last.ret
    /\ heap[last.recv].Fields # NilMap

----------------------------------------------------------------------------
(* Claims about causal chains across all calls (SpecChain) *)

\* following cause links from err ends, within n links, at an error that is no
\* AppError value (nil, a std error, a nil *AppError)
RECURSIVE EndsWithin(_, _)
EndsWithin(err, n) ==
    IF err <= 0 THEN TRUE
    ELSE n > 0 /\ EndsWithin(heap[err].cause, n - 1)

\* C15: in every reachable state, following cause links from any AppError
\* never revisits a value, so repeated Unwrap ends after at most as many steps
\* as there are values; the cause of a value made by Wrap is a value that
\* existed before the call, and no call changes the cause of an existing value.
C15_Acyclic ==
    /\ [](\A e \in 1..Len(heap) :
             /\ heap[e].cause < e
             /\ EndsWithin(e, Len(heap)))
    /\ [][ /\ \A e \in 1..Len(heap) : heap'[e].cause = heap[e].cause
           /\ \A e \in (Len(heap) + 1)..Len(heap') : heap'[e].cause <= Len(heap) ]_vars

\* C15 witness: Wrap has made a new node whose cause is an AppError that
\* existed before, itself without a cause.
C15_Witness ==
    /\ last.op = "Wrap" /\ ~last.panic
    /\ last.arg > 0 /\ last.ret = Len(heap) /\ last.ret > last.arg
    /\ heap[last.ret].cause = last.arg
    /\ heap[last.arg].cause = NilErr

----------------------------------------------------------------------------
(* Claims about builders applied to wrapped values (SpecBuild) *)

\* b has a's service, code, message, cause and transport code
KeepsIdentity(a, b) ==
    /\ b.Service = a.Service /\ b.Code = a.Code /\ b.Message = a.Message
    /\ b.cause = a.cause /\ b.grpcCode = a.grpcCode

\* C17: for every value e, as it is or after ToJSON stored a trace id in it:
\* e.WithGRPCCode(c) equals e in service, code, message, fields, cause and
\* trace id and has transport code c; AddFields, WithField and WithFields
\* return a value equal to e in service, code, message, cause and transport
\* code; so the result of a builder called on a wrapped value unwraps to the
\* same cause and a field builder keeps the transport code set before.
C17_BuildersKeepTheRest ==
    /\ \A e \in 1..Len(heap), ctx \in Contexts :
          LET h == ToJSON(heap, maps, ctx, e).heap
          IN  /\ \A c \in GRPCCodes :
                    LET r == WithGRPCCode(h, maps, e, c)
                    IN  ~r.panic /\ r.heap[r.ret] = [h[e] EXCEPT !.grpcCode = c]
              /\ \A f \in FieldInputs :
                    LET r == AddFields(h, maps, e, f)
                    IN  ~r.panic /\ KeepsIdentity(h[e], r.heap[r.ret])
              /\ \A kv \in PairInputs :
                    LET r == WithField(h, maps, e, kv[1], kv[2])
                    IN  ~r.panic /\ KeepsIdentity(h[e], r.heap[r.ret])
              /\ \A f \in MapRefs :
                    LET r == WithFields(h, maps, e, f)
                    IN  ~r.panic /\ KeepsIdentity(h[e], r.heap[r.ret])
    /\ (last.op \in {"WithField", "WithGRPCCode"} /\ last.recv # NilPtr) =>
          /\ ~last.panic
          /\ Unwrap(heap, maps, last.ret).ret = heap[last.recv].cause
          /\ last.op = "WithField" => heap[last.ret].grpcCode = heap[last.recv].grpcCode
          /\ last.op = "WithGRPCCode" => heap[last.ret].grpcCode = last.arg

\* C17 witness: WithField, called on a value that wraps a std error, has
\* returned a value with a new field map that unwraps to the same std error.
C17_Witness ==
    /\ last.op = "WithField" /\ ~last.panic /\ last.recv # NilPtr
    /\ heap[last.recv].cause = StdErr
    /\ last.ret # last.recv
    /\ heap[last.ret].Fields # heap[last.recv].Fields
    /\ Unwrap(heap, maps, last.ret).ret = StdErr

----------------------------------------------------------------------------
(* Claims about matching (SpecMatch) *)

\* every field of b is in a with an equal value
SubsetOf(b, a) == \A k \in DOMAIN b : k \in DOMAIN a /\ a[k] = b[k]

\* C8 as stated: for every template t, key k and value v, with
\* e = t.WithField(k, v), the call t.Is(e) returns true.
C8_TemplateIsEnriched ==
    \A t \in 1..Len(heap), kv \in PairInputs :
        LET r == WithField(heap, maps, t, kv[1], kv[2])
        IN  Is(r.heap, r.maps, t, r.ret).ok

\* C8 amended: for every template t, key k and value v, with
\* e = t.WithField(k, v): e.Is(t) returns true exactly when t does not hold k
\* with a value other than v (so for every template that has no field k), and
\* t.Is(e) returns true exactly when t already holds k with the value v.
C8_EnrichedIsTemplate ==
    \A t \in 1..Len(heap), kv \in PairInputs :
        LET r == WithField(heap, maps, t, kv[1], kv[2])
            tf == Contents(maps, heap[t].Fields)
        IN  /\ ~r.panic
            /\ ~Is(r.heap, r.maps, r.ret, t).panic
            /\ Is(r.heap, r.maps, r.ret, t).ok
                  <=> (kv[1] \in DOMAIN tf => tf[kv[1]] = kv[2])
            /\ Is(r.heap, r.maps, t, r.ret).ok
                  <=> (kv[1] \in DOMAIN tf /\ tf[kv[1]] = kv[2])

\* C8 witness: e.Is(t) has returned true for a value e that is what
\* t.WithField(k, v) returns, k being a key t does not hold.
C8_Witness ==
    /\ last.op = "Is" /\ last.ok /\ last.recv > 0 /\ last.arg > 0
    /\ last.recv # last.arg
    /\ \E kv \in PairInputs :
          LET t == last.arg
              e == last.recv
              r == WithField(heap, maps, t, kv[1], kv[2])
          IN  /\ kv[1] \notin DOMAIN Contents(maps, heap[t].Fields)
              /\ [heap[e] EXCEPT !.Fields = NilMap]
                    = [r.heap[r.ret] EXCEPT !.Fields = NilMap]
              /\ Contents(maps, heap[e].Fields) = Contents(r.maps, r.heap[r.ret].Fields)

----------------------------------------------------------------------------
(* Claims about transcoding (SpecCodec) *)

\* the detail record GRPCStatus builds for the struct at e
DetailOf(e) ==
    ErrorDetail(heap[e].Service, heap[e].Code, heap[e].Message,
                Contents(maps, heap[e].Fields))

\* the transport code a decoded copy of e is expected to carry
ExpectedCode(e) == IF heap[e].grpcCode = OK THEN Unknown ELSE heap[e].grpcCode

\* FromGRPCStatus(e.GRPCStatus()) has e's service, code, message and fields, and
\* e's transport code or, when that is unset, codes.Unknown
RoundTrips(e) ==
    LET r == FromGRPCStatus(heap, maps, GRPCStatus(heap, maps, e).st)
    IN  /\ ~r.panic /\ r.ret # NilPtr
        /\ r.heap[r.ret].Service = heap[e].Service
        /\ r.heap[r.ret].Code = heap[e].Code
        /\ r.heap[r.ret].Message = heap[e].Message
        /\ Contents(r.maps, r.heap[r.ret].Fields) = Contents(maps, heap[e].Fields)
        /\ r.heap[r.ret].grpcCode = ExpectedCode(e)

\* C5 as stated: for every AppError e, FromGRPCStatus(e.GRPCStatus()) has the
\* same service, code, message and fields as e, and e's transport code, or
\* codes.Unknown when e's was unset.
C5_RoundTrip == \A e \in 1..Len(heap) : RoundTrips(e)

\* C5 amended: the same, for every AppError e whose detail record GRPCStatus can
\* attach (all of e's strings are valid UTF-8).
C5_RoundTripWhenAttached ==
    \A e \in 1..Len(heap) : Marshals(DetailOf(e)) => RoundTrips(e)

\* C5 witness: FromGRPCStatus has decoded the status GRPCStatus returned for a
\* value e with fields and the transport code NotFound, into a new value with
\* e's service, code, message, fields and transport code.
C5_Witness ==
    /\ last.op = "FromGRPCStatus" /\ ~last.panic
    /\ last.recv > 0 /\ last.ret = Len(heap) /\ last.ret # last.recv
    /\ heap[last.recv].grpcCode = NotFound
    /\ DOMAIN Contents(maps, heap[last.recv].Fields) # {}
    /\ heap[last.ret].Fields # heap[last.recv].Fields
    /\ [heap[last.ret] EXCEPT !.Fields = NilMap] = [heap[last.recv] EXCEPT !.Fields = NilMap]
    /\ Contents(maps, heap[last.ret].Fields) = Contents(maps, heap[last.recv].Fields)

\* C6 as stated: the code of e.GRPCStatus() is never codes.OK; it is e's
\* transport code when that is set and not OK, and codes.Unknown otherwise.
C6_StatusCodeIsTransportCode ==
    (last.op = "GRPCStatus" /\ last.recv # NilPtr) =>
        /\ last.st.code # OK
        /\ last.st.code = ExpectedCode(last.recv)

\* C6 amended: the code of e.GRPCStatus() is never codes.OK; when the detail
\* record attaches it is e's transport code if that is set and not OK, and
\* codes.Unknown otherwise; when the detail record does not attach it is
\* codes.Internal.
C6_NeverEncodedAsSuccess ==
    (last.op = "GRPCStatus" /\ last.recv # NilPtr) =>
        /\ ~last.panic /\ ~last.st.isNil
        /\ last.st.code # OK
        /\ last.st.code = IF Marshals(DetailOf(last.recv))
                          THEN ExpectedCode(last.recv) ELSE Internal

\* C6 witness: GRPCStatus has returned a status with code Unknown and a detail
\* for a value whose transport code is 0 (unset, or set to OK).
C6_Witness ==
    /\ last.op = "GRPCStatus" /\ last.recv # NilPtr /\ ~last.panic
    /\ heap[last.recv].grpcCode = OK
    /\ last.st.code = Unknown
    /\ Len(last.st.details) = 1

\* C11: when the detail record does not attach, e.GRPCStatus() is the status
\* with code Internal, message "failed to marshal error" and no details, which
\* carries none of e's service, code, message or fields; otherwise its message
\* is e's message and it has exactly one detail, holding e's service, code,
\* message and fields.
C11_EncodingDegradation ==
    (last.op = "GRPCStatus" /\ last.recv # NilPtr) =>
        LET a == heap[last.recv]
            code == IF a.grpcCode = OK THEN Unknown ELSE a.grpcCode
        IN  IF WithDetails(StatusNew(code, a.Message), DetailOf(last.recv)).err
            THEN /\ last.st.code = Internal
                 /\ last.st.message = "failed to marshal error"
                 /\ last.st.message # a.Message
                 /\ last.st.details = <<>>
            ELSE /\ last.st.message = a.Message
                 /\ Len(last.st.details) = 1
                 /\ last.st.details[1].kind = "ErrorDetail"
                 /\ last.st.details[1].Service = a.Service
                 /\ last.st.details[1].Code = a.Code
                 /\ last.st.details[1].Message = a.Message
                 /\ last.st.details[1].Fields = Contents(maps, a.Fields)

\* C11 witness: GRPCStatus of a value with transport code NotFound whose
\* message is not valid UTF-8 has returned the Internal status without details.
C11_Witness ==
    /\ last.op = "GRPCStatus" /\ last.recv # NilPtr /\ ~last.panic
    /\ heap[last.recv].Message = BadStr
    /\ heap[last.recv].grpcCode = NotFound
    /\ last.st = StatusNew(Internal, "failed to marshal error")

\* C18: for a non-nil status with at least one ErrorDetail among its details,
\* at any position, FromGRPCStatus returns a new AppError with the service,
\* code, message and fields of the first ErrorDetail in list order, the
\* status's own code as transport code and no cause; the status's message and
\* the details after that one are not used.
C18_DecodesFirstDetail ==
    (last.op = "FromGRPCStatus" /\ ~last.st.isNil /\ ErrorDetailAt(last.st) # {}) =>
        \E i \in 1..Len(last.st.details) :
            LET d == last.st.details[i]
                a == heap[last.ret]
            IN  /\ d.kind = "ErrorDetail"
                /\ \A j \in 1..(i - 1) : last.st.details[j].kind # "ErrorDetail"
                /\ ~last.panic /\ last.ret = Len(heap) /\ last.ret # NilPtr
                /\ a.Service = d.Service /\ a.Code = d.Code /\ a.Message = d.Message
                /\ Contents(maps, a.Fields) = d.Fields
                /\ a.grpcCode = last.st.code
                /\ a.cause = NilErr

\* C18 witness: FromGRPCStatus has decoded a status with message "not found"
\* whose first detail is of another type and whose second is an ErrorDetail
\* with a field.
C18_Witness ==
    /\ last.op = "FromGRPCStatus" /\ ~last.st.isNil /\ ~last.panic
    /\ last.st.message = "not found"
    /\ Len(last.st.details) = 2
    /\ last.st.details[1].kind = "Other"
    /\ last.st.details[2].kind = "ErrorDetail"
    /\ heap[last.ret].Message = "user not found"
    /\ Contents(maps, heap[last.ret].Fields) = [k \in {"id"} |-> "1"]
    /\ heap[last.ret].grpcCode = NotFound

\* C10: FromGRPCStatus(nil) returns nil; for a non-nil status without an
\* ErrorDetail among its details it returns a new AppError with service
\* "unknown", code "00000", the status's message and code, no fields, no cause.
C10_DecodeFallback ==
    last.op = "FromGRPCStatus" =>
        /\ ~last.panic
        /\ last.st.isNil => last.ret = NilPtr
        /\ (~last.st.isNil /\ ErrorDetailAt(last.st) = {}) =>
              /\ last.ret = Len(heap) /\ last.ret # NilPtr
              /\ heap[last.ret] = AppErrorStruct("unknown", "00000", last.st.message,
                                                 NilMap, NilErr, last.st.code, "")

\* C10 witness: FromGRPCStatus has decoded a status with code NotFound whose
\* details are all of another type.
C10_Witness ==
    /\ last.op = "FromGRPCStatus" /\ ~last.st.isNil
    /\ Len(last.st.details) = MaxDetails /\ ErrorDetailAt(last.st) = {}
    /\ last.ret # NilPtr
    /\ heap[last.ret].Service = "unknown" /\ heap[last.ret].Code = "00000"
    /\ heap[last.ret].Message = "not found" /\ heap[last.ret].grpcCode = NotFound

----------------------------------------------------------------------------
(* Claims about serialisation (SpecJSON) *)

\* C2: whatever was done before to e or to the value e was copied from, ToJSON
\* with a context without a trace id returns no "trace_id" key, and ToJSON with
\* a context carrying "abc" returns "trace_id":"abc".
C2_TraceIDFromContext ==
    (last.op = "ToJSON" /\ last.arg > 0) =>
        /\ ~last.panic
        /\ ~HasTrace(last.ctx) => "trace_id" \notin last.out.keys
        /\ last.ctx = <<"abc">> =>
              ("trace_id" \in last.out.keys /\ last.out.trace_id = "abc")

\* C3: ToJSON (with any context) and GRPCStatus leave every component of the
\* error they are given, its traceID included, as it was.
C3_TranscodingReadsOnly ==
    [][ last'.op \in {"ToJSON", "GRPCStatus"} => (heap' = heap /\ maps' = maps) ]_vars

----------------------------------------------------------------------------
(* Claims about rendering (SpecRender) *)

\* the pairs of fields in the order given, each as "k":"v", separated by ", "
RECURSIVE PairList(_, _)
PairList(fields, order) ==
    IF Len(order) = 0 THEN ""
    ELSE LET n == Len(order)
         IN  PairList(fields, SubSeq(order, 1, n - 1))
             \o (IF n > 1 THEN ", " ELSE "")
             \o "\"" \o order[n] \o "\":\"" \o fields[order[n]] \o "\""

\* the texts of the cause of the struct a
CauseTexts(a) ==
    IF a.cause = StdErr THEN {StdErrText} ELSE Error(heap, maps, a.cause)

----------------------------------------------------------------------------
(* Claims about absent inputs (SpecCore) *)

\* C12: no call of New, Wrap, WithField, AddFields, WithFields, WithGRPCCode,
\* Error, Unwrap, Is, GRPCStatus, FromGRPCStatus or ToJSON panics, whatever
\* its inputs, nil ones included.
C12_NeverPanics == ~last.panic

----------------------------------------------------------------------------
(* Claims about concurrent callers (SpecConc) *)

\* C4: in every interleaving no caller stores into the shared template and
\* each finished call returned what it returns when run alone.
C4_RaceFree ==
    /\ wrote = {}
    /\ heap[Template] = New(<<>>, <<>>, "user-service", "US-404", "user not found").heap[1]
    /\ \A g \in Goroutines : pc[g] = "done" => gres[g] = Alone(g)

====
